---------------------------- MODULE Spec2Model ----------------------------
(***************************************************************************)
(* Asynchronous PDF summarisation jobs of src/main.py.                     *)
(*                                                                         *)
(* summarize_pdf validates an upload, stores a job record in the global    *)
(* dict tasks_storage and starts one daemon thread running                 *)
(* process_pdf_thread; get_summary_status returns the record of a job.     *)
(* The handlers are coroutines of one event loop: a handler gives way to  *)
(* another handler only at an await.  The runners are threads of their own *)
(* and tasks_storage is a plain dict without a lock: every statement of a  *)
(* runner that reads or writes it is one step, and the steps of a runner   *)
(* interleave freely with the handlers and with the other runners.         *)
(***************************************************************************)
EXTENDS Integers, Sequences, FiniteSets, TLC

(***************************************************************************)
(* Bounds of the model.                                                    *)
(***************************************************************************)
\* number of uploads received during a run
MaxReqs == 2

Reqs == 1..MaxReqs

\* the identifiers uuid4 can draw from: one more than is ever issued, so
\* that an identifier no submission returned always exists
JobIds == 1..(MaxReqs + 1)

(***************************************************************************)
(* Configuration (src/main.py:24-25, 50).                                  *)
(***************************************************************************)
MAX_FILE_SIZE == 10 * 1024 * 1024

ALLOWED_EXTENSIONS == { <<".", "p", "d", "f">> }

\* text[:4000] in summarize_text
TEXT_BUDGET == 4000

(***************************************************************************)
(* Inputs.  A filename is a sequence of characters; the content of an      *)
(* upload is represented by its length in bytes.                           *)
(***************************************************************************)
Filenames ==
    { <<"a", ".", "p", "d", "f">>,
      <<"b", ".", "P", "D", "F">>,
      <<"a", ".", "t", "x", "t">>,
      <<".", "p", "d", "f">>,
      <<"p", "d", "f">> }

ContentSizes == { MAX_FILE_SIZE, MAX_FILE_SIZE + 1 }

\* lengths of the text pdfplumber can yield after strip()
TextLengths == { 0, 1, TEXT_BUDGET + 1 }

\* contents the chat backend can answer with
SummaryContents == { "", "Ringkasan" }

\* messages of the faults the temporary-file calls and the libraries behind
\* the ports can raise
FaultMessages == { "", "No space left on device" }

(***************************************************************************)
(* Python values.  An optional value is a record whose field none tells    *)
(* whether it is None.                                                     *)
(***************************************************************************)
NoneText == [none |-> TRUE, len |-> 0]

SomeText(n) == [none |-> FALSE, len |-> n]

NoneSummary == [none |-> TRUE, val |-> ""]

SomeSummary(s) == [none |-> FALSE, val |-> s]

\* "not text" of Python: None and the empty string are falsy
NotText(t) == t.none \/ t.len = 0

\* "summary is None" in place of "not summary"
NotSummary_NoneOnly(s) == s.none

\* "not summary"
NotSummary(s) == s.none \/ s.val = ""

\* d[k] = v on a dict
Put(d, k, v) == [x \in (DOMAIN d) \cup {k} |-> IF x = k THEN v ELSE d[x]]

EmptyDict == [x \in {} |-> {}]

(***************************************************************************)
(* os.path.splitext(filename)[1].lower()                                   *)
(***************************************************************************)
\* p.rfind(c), 1-based; 0 when c does not occur
RFind(p, c) ==
    LET hits == { i \in 1..Len(p) : p[i] = c }
    IN  IF hits = {} THEN 0 ELSE CHOOSE i \in hits : \A k \in hits : k <= i

\* the extension splitext returns: from the last dot of the last path
\* component, unless that component has only dots before it
splitext_ext(p) ==
    LET sepIndex == RFind(p, "/")
        dotIndex == RFind(p, ".")
    IN  IF /\ dotIndex > sepIndex
           /\ \E i \in (sepIndex + 1)..(dotIndex - 1) : p[i] # "."
        THEN SubSeq(p, dotIndex, Len(p))
        ELSE << >>

\* lower() left out: the extension is compared as written
lower_char_Identity(c) == c

lower_char(c) ==
    CASE c = "P" -> "p"
      [] c = "D" -> "d"
      [] c = "F" -> "f"
      [] OTHER   -> c

lower(s) == [i \in 1..Len(s) |-> lower_char(s[i])]

file_ext(filename) == lower(splitext_ext(filename))

(***************************************************************************)
(* The two ports.  Each catches every fault of its library and returns     *)
(* None instead.                                                           *)
(***************************************************************************)
PdfOutcomes ==
    { [raised |-> TRUE, len |-> 0, msg |-> m] : m \in FaultMessages } \cup
    { [raised |-> FALSE, len |-> n, msg |-> ""] : n \in TextLengths }

extract_text_from_pdf(o) == IF o.raised THEN NoneText ELSE SomeText(o.len)

ChatOutcomes ==
    { [raised |-> TRUE, content |-> "", msg |-> m] : m \in FaultMessages } \cup
    { [raised |-> FALSE, content |-> c, msg |-> ""] : c \in SummaryContents }

\* the whole text placed in the prompt
Truncate_Whole(n) == n

\* length of the slice text[:4000] placed in the prompt
Truncate(n) == IF n <= TEXT_BUDGET THEN n ELSE TEXT_BUDGET

summarize_text(o) == IF o.raised THEN NoneSummary ELSE SomeSummary(o.content)

NoTextMessage == "No text found in PDF. The file might be empty or contain only images."

OllamaMessage == "Failed to generate summary. Ollama might be unavailable."

(***************************************************************************)
(* State.                                                                  *)
(***************************************************************************)
VARIABLES
    tasks_storage,   \* dict: job id -> record (a function on its keys)
    reqPc,           \* position of each summarize_pdf call
    filename,        \* file.filename of each call
    content,         \* len(content) of each call
    job_id,          \* job id generated by each call (partial)
    thrPc,           \* position of the runner thread started by each call
    temp_file_path,  \* runner local: name of its temporary file (partial: None)
    text,            \* runner local
    summary,         \* runner local
    prompt_text,     \* runner: length of the text placed in the prompt (partial)
    exc,             \* runner: message of the fault being handled (partial)
    port_exc,        \* message of the fault a port caught for the runner (partial)
    port_calls,      \* number of calls the runner made to each port
    files,           \* temporary files that exist on disk
    response         \* the HTTP response sent by the step just taken, if any

vars == << tasks_storage, reqPc, filename, content, job_id, thrPc,
           temp_file_path, text, summary, prompt_text, exc, port_exc, port_calls,
           files, response >>

reqVars == << reqPc, filename, content, job_id >>

portVars == << port_exc, port_calls >>

thrVars == << thrPc, temp_file_path, text, summary, prompt_text, exc, portVars,
             files >>

Init ==
    /\ tasks_storage = EmptyDict
    /\ reqPc = [r \in Reqs |-> "new"]
    /\ filename = [r \in Reqs |-> << >>]
    /\ content = [r \in Reqs |-> 0]
    /\ job_id = EmptyDict
    /\ thrPc = [r \in Reqs |-> "idle"]
    /\ temp_file_path = EmptyDict
    /\ text = [r \in Reqs |-> NoneText]
    /\ summary = [r \in Reqs |-> NoneSummary]
    /\ prompt_text = EmptyDict
    /\ exc = EmptyDict
    /\ port_exc = EmptyDict
    /\ port_calls = [r \in Reqs |-> [extract |-> 0, summarize |-> 0]]
    /\ files = {}
    /\ response = {}

(***************************************************************************)
(* summarize_pdf (POST /summarize), src/main.py:144-188.                   *)
(***************************************************************************)
Statuses == { "processing", "extracting", "summarizing", "completed", "error" }

\* an identifier derived from a value two uploads can share
uuid4_Shared(id) == id = 1

\* uuid.uuid4(): an identifier that was never generated before.  The
\* identifiers are interchangeable, so they are numbered in the order in
\* which they are generated.
uuid4(id) == id = Cardinality(DOMAIN job_id) + 1

\* no summarize_pdf call is between its await (line 157) and its return
\* (line 184): the event loop is free to run another handler
EventLoopFree == \A q \in Reqs : reqPc[q] \notin {"created", "started"}

InitialRecord(fn) == [status |-> "processing", filename |-> fn]

BadRequest(r, msg) ==
    [endpoint |-> "summarize", call |-> r, status_code |-> 400,
     content |-> [detail |-> msg]]

\* lines 184-188
Accepted(r, id) ==
    [endpoint |-> "summarize", call |-> r, status_code |-> 200,
     content |-> [job_id |-> id, status |-> "processing"]]

\* lines 148-154: the upload arrives and its extension is checked; the
\* calls are numbered in their order of arrival
SubmitValidate(r) ==
    /\ reqPc[r] = "new"
    /\ EventLoopFree
    /\ \A q \in Reqs : q < r => reqPc[q] # "new"
    /\ \E fn \in Filenames, size \in ContentSizes :
         /\ filename' = [filename EXCEPT ![r] = fn]
         /\ content' = [content EXCEPT ![r] = size]
         /\ IF file_ext(fn) \notin ALLOWED_EXTENSIONS
            THEN /\ reqPc' = [reqPc EXCEPT ![r] = "rejected"]
                 /\ response' =
                      { BadRequest(r, "Invalid file type. Only PDF files are allowed.") }
            ELSE /\ reqPc' = [reqPc EXCEPT ![r] = "reading"]
                 /\ response' = {}
    /\ UNCHANGED << tasks_storage, job_id, thrVars >>

\* lines 156-173: after await file.read(), the size check, then the job id
\* and the initial record
SubmitCreate(r) ==
    /\ reqPc[r] = "reading"
    /\ EventLoopFree
    /\ IF content[r] > MAX_FILE_SIZE
       THEN /\ reqPc' = [reqPc EXCEPT ![r] = "rejected"]
            /\ response' = { BadRequest(r, "File too large. Maximum size is 10MB.") }
            /\ UNCHANGED << tasks_storage, job_id >>
       ELSE \E id \in JobIds :
            /\ uuid4(id)
            /\ job_id' = Put(job_id, r, id)
            /\ tasks_storage' = Put(tasks_storage, id, InitialRecord(filename[r]))
            /\ reqPc' = [reqPc EXCEPT ![r] = "created"]
            /\ response' = {}
    /\ UNCHANGED << filename, content, thrVars >>

\* lines 175-181: thread.start()
SubmitStartThread(r) ==
    /\ reqPc[r] = "created"
    /\ thrPc' = [thrPc EXCEPT ![r] = "start"]
    /\ reqPc' = [reqPc EXCEPT ![r] = "started"]
    /\ response' = {}
    /\ UNCHANGED << tasks_storage, filename, content, job_id, temp_file_path,
                    text, summary, prompt_text, exc, portVars, files >>

\* thread.join() before the return: the handler waits for the runner
SubmitReturn_Join(r) ==
    /\ reqPc[r] = "started"
    /\ thrPc[r] = "done"
    /\ reqPc' = [reqPc EXCEPT ![r] = "returned"]
    /\ response' = { [endpoint |-> "summarize", call |-> r, status_code |-> 200,
                      content |-> [job_id |-> job_id[r], status |-> "processing"]] }
    /\ UNCHANGED << tasks_storage, filename, content, job_id, thrVars >>

\* lines 183-188: the response is returned; nothing is awaited
SubmitReturn(r) ==
    /\ reqPc[r] = "started"
    /\ reqPc' = [reqPc EXCEPT ![r] = "returned"]
    /\ response' = { Accepted(r, job_id[r]) }
    /\ UNCHANGED << tasks_storage, filename, content, job_id, thrVars >>

summarize_pdf(r) ==
    \/ SubmitValidate(r)
    \/ SubmitCreate(r)
    \/ SubmitStartThread(r)
    \/ SubmitReturn(r)

(***************************************************************************)
(* get_summary_status (GET /summarize/{job_id}), src/main.py:190-196.      *)
(***************************************************************************)
NotFoundResponse(id) ==
    [endpoint |-> "status", call |-> id, status_code |-> 404,
     content |-> [detail |-> "Job not found"]]

JobResponse(id) ==
    [endpoint |-> "status", call |-> id, status_code |-> 200,
     content |-> tasks_storage[id]]

\* a lookup that inserts a default record for an unknown id
get_summary_status_SetDefault(id) ==
    /\ EventLoopFree
    /\ tasks_storage' = IF id \in DOMAIN tasks_storage THEN tasks_storage
                        ELSE Put(tasks_storage, id, [status |-> "processing"])
    /\ response' = { [endpoint |-> "status", call |-> id, status_code |-> 200,
                      content |-> tasks_storage'[id]] }
    /\ UNCHANGED << reqVars, thrVars >>

get_summary_status(id) ==
    /\ EventLoopFree
    /\ response' = { IF id \notin DOMAIN tasks_storage
                      THEN NotFoundResponse(id) ELSE JobResponse(id) }
    /\ UNCHANGED << tasks_storage, reqVars, thrVars >>

(***************************************************************************)
(* process_pdf_thread, src/main.py:66-122.  Runner t is the thread started *)
(* by call t; its arguments are job_id[t] and filename[t].                 *)
(***************************************************************************)
\* an error record written without its status
ErrorRecord_NoStatus(msg) == [error |-> msg]

ErrorRecord(msg) == [status |-> "error", error |-> msg]

\* a completed record that carries an empty error field
CompletedRecord_WithError(fn, n, s) ==
    [status |-> "completed", filename |-> fn, text_length |-> n, summary |-> s,
     error |-> ""]

\* a completed record built without the filename
CompletedRecord_NoFilename(fn, n, s) ==
    [status |-> "completed", text_length |-> n, summary |-> s]

CompletedRecord(fn, n, s) ==
    [status |-> "completed", filename |-> fn, text_length |-> n, summary |-> s]

\* lines 68-74: NamedTemporaryFile(delete=False) creates the file, then
\* write, flush and temp_file_path = temp_file.name.  A fault of the
\* constructor leaves no file; a fault of write or flush leaves the with
\* block (the file is closed but, with delete=False, not removed) before
\* temp_file_path is assigned.
RunStoreInput(t) ==
    /\ thrPc[t] = "start"
    /\ response' = {}
    /\ \/ /\ files' = files \cup {t}
          /\ temp_file_path' = Put(temp_file_path, t, t)
          /\ thrPc' = [thrPc EXCEPT ![t] = "set_extracting"]
          /\ UNCHANGED exc
       \/ \E m \in FaultMessages :
          /\ exc' = Put(exc, t, m)
          /\ thrPc' = [thrPc EXCEPT ![t] = "except"]
          /\ UNCHANGED << files, temp_file_path >>
       \/ \E m \in FaultMessages :
          /\ files' = files \cup {t}
          /\ exc' = Put(exc, t, m)
          /\ thrPc' = [thrPc EXCEPT ![t] = "except"]
          /\ UNCHANGED temp_file_path
    /\ UNCHANGED << tasks_storage, reqVars, text, summary, prompt_text, portVars >>

\* line 77 left out
RunSetExtracting_Skip(t) ==
    /\ thrPc[t] = "set_extracting"
    /\ response' = {}
    /\ thrPc' = [thrPc EXCEPT ![t] = "extract"]
    /\ UNCHANGED << tasks_storage, reqVars, temp_file_path, text, summary,
                    prompt_text, exc, files, portVars >>

\* line 77 writing to the job created last instead of the runner's own
RunSetExtracting_Latest(t) ==
    /\ thrPc[t] = "set_extracting"
    /\ response' = {}
    /\ tasks_storage' =
          [tasks_storage EXCEPT ![Cardinality(DOMAIN job_id)].status = "extracting"]
    /\ thrPc' = [thrPc EXCEPT ![t] = "extract"]
    /\ UNCHANGED << reqVars, temp_file_path, text, summary, prompt_text, exc,
                    files, portVars >>

\* line 77
RunSetExtracting(t) ==
    /\ thrPc[t] = "set_extracting"
    /\ response' = {}
    /\ tasks_storage' = [tasks_storage EXCEPT ![job_id[t]].status = "extracting"]
    /\ thrPc' = [thrPc EXCEPT ![t] = "extract"]
    /\ UNCHANGED << reqVars, temp_file_path, text, summary, prompt_text, exc,
                    files, portVars >>

\* the return of line 87 left out: after the error record the runner goes on
\* to line 91
RunExtract_NoReturn(t) ==
    /\ thrPc[t] = "extract"
    /\ response' = {}
    /\ \E o \in PdfOutcomes :
         /\ text' = [text EXCEPT ![t] = extract_text_from_pdf(o)]
         /\ port_exc' = IF o.raised THEN Put(port_exc, t, o.msg) ELSE port_exc
    /\ port_calls' = [port_calls EXCEPT ![t].extract = @ + 1]
    /\ IF NotText(text'[t])
       THEN tasks_storage' = Put(tasks_storage, job_id[t], ErrorRecord(NoTextMessage))
       ELSE tasks_storage' = [tasks_storage EXCEPT ![job_id[t]].status = "summarizing"]
    /\ thrPc' = [thrPc EXCEPT ![t] = "set_text_length"]
    /\ UNCHANGED << reqVars, temp_file_path, summary, prompt_text, exc, files >>

\* lines 80-90: the Extraction Port returns; then the error record and
\* return, or status = "summarizing"
RunExtract(t) ==
    /\ thrPc[t] = "extract"
    /\ response' = {}
    /\ \E o \in PdfOutcomes :
         /\ text' = [text EXCEPT ![t] = extract_text_from_pdf(o)]
         /\ port_exc' = IF o.raised THEN Put(port_exc, t, o.msg) ELSE port_exc
    /\ port_calls' = [port_calls EXCEPT ![t].extract = @ + 1]
    /\ IF NotText(text'[t])
       THEN /\ tasks_storage' = Put(tasks_storage, job_id[t], ErrorRecord(NoTextMessage))
            /\ thrPc' = [thrPc EXCEPT ![t] = "finally"]
       ELSE /\ tasks_storage' =
                  [tasks_storage EXCEPT ![job_id[t]].status = "summarizing"]
            /\ thrPc' = [thrPc EXCEPT ![t] = "set_text_length"]
    /\ UNCHANGED << reqVars, temp_file_path, summary, prompt_text, exc, files >>

\* line 91 writing the status of line 77 along with text_length
RunSetTextLength_Regress(t) ==
    /\ thrPc[t] = "set_text_length"
    /\ response' = {}
    /\ tasks_storage' =
          Put(tasks_storage, job_id[t],
              Put([tasks_storage[job_id[t]] EXCEPT !.status = "extracting"],
                  "text_length", text[t].len))
    /\ thrPc' = [thrPc EXCEPT ![t] = "summarize"]
    /\ UNCHANGED << reqVars, temp_file_path, text, summary, prompt_text, exc,
                    files, portVars >>

\* line 91
RunSetTextLength(t) ==
    /\ thrPc[t] = "set_text_length"
    /\ response' = {}
    /\ tasks_storage' =
          Put(tasks_storage, job_id[t],
              Put(tasks_storage[job_id[t]], "text_length", text[t].len))
    /\ thrPc' = [thrPc EXCEPT ![t] = "summarize"]
    /\ UNCHANGED << reqVars, temp_file_path, text, summary, prompt_text, exc,
                    files, portVars >>

\* a failed summarization tried again instead of recorded
RunSummarize_Retry(t) ==
    /\ thrPc[t] = "summarize"
    /\ response' = {}
    /\ prompt_text' = Put(prompt_text, t, Truncate(text[t].len))
    /\ \E o \in ChatOutcomes :
         /\ summary' = [summary EXCEPT ![t] = summarize_text(o)]
         /\ port_exc' = IF o.raised THEN Put(port_exc, t, o.msg) ELSE port_exc
    /\ port_calls' = [port_calls EXCEPT ![t].summarize = @ + 1]
    /\ IF NotSummary(summary'[t])
       THEN UNCHANGED << tasks_storage, thrPc >>
       ELSE /\ tasks_storage' =
                  Put(tasks_storage, job_id[t],
                      CompletedRecord(filename[t], text[t].len, summary'[t].val))
            /\ thrPc' = [thrPc EXCEPT ![t] = "finally"]
    /\ UNCHANGED << reqVars, temp_file_path, text, exc, files >>

\* lines 97-100 updating the record in place instead of replacing it
RunSummarize_Update(t) ==
    /\ thrPc[t] = "summarize"
    /\ response' = {}
    /\ prompt_text' = Put(prompt_text, t, Truncate(text[t].len))
    /\ \E o \in ChatOutcomes :
         /\ summary' = [summary EXCEPT ![t] = summarize_text(o)]
         /\ port_exc' = IF o.raised THEN Put(port_exc, t, o.msg) ELSE port_exc
    /\ port_calls' = [port_calls EXCEPT ![t].summarize = @ + 1]
    /\ tasks_storage' =
          Put(tasks_storage, job_id[t],
              IF NotSummary(summary'[t])
              THEN Put(Put(tasks_storage[job_id[t]], "status", "error"),
                       "error", OllamaMessage)
              ELSE CompletedRecord(filename[t], text[t].len, summary'[t].val))
    /\ thrPc' = [thrPc EXCEPT ![t] = "finally"]
    /\ UNCHANGED << reqVars, temp_file_path, text, exc, files >>

\* lines 94-109: the Summarization Port is given text[:4000] and returns;
\* then the error record and return, or the completed record
RunSummarize(t) ==
    /\ thrPc[t] = "summarize"
    /\ response' = {}
    /\ prompt_text' = Put(prompt_text, t, Truncate(text[t].len))
    /\ \E o \in ChatOutcomes :
         /\ summary' = [summary EXCEPT ![t] = summarize_text(o)]
         /\ port_exc' = IF o.raised THEN Put(port_exc, t, o.msg) ELSE port_exc
    /\ port_calls' = [port_calls EXCEPT ![t].summarize = @ + 1]
    /\ tasks_storage' =
          Put(tasks_storage, job_id[t],
              IF NotSummary(summary'[t])
              THEN ErrorRecord(OllamaMessage)
              ELSE CompletedRecord(filename[t], text[t].len, summary'[t].val))
    /\ thrPc' = [thrPc EXCEPT ![t] = "finally"]
    /\ UNCHANGED << reqVars, temp_file_path, text, exc, files >>

\* a handler that cleans up without recording the fault
RunExcept_NoRecord(t) ==
    /\ thrPc[t] = "except"
    /\ response' = {}
    /\ thrPc' = [thrPc EXCEPT ![t] = "finally"]
    /\ UNCHANGED << tasks_storage, reqVars, temp_file_path, text, summary,
                    prompt_text, exc, files, portVars >>

\* a handler that records a fixed message instead of str(e)
RunExcept_Generic(t) ==
    /\ thrPc[t] = "except"
    /\ response' = {}
    /\ tasks_storage' = Put(tasks_storage, job_id[t], ErrorRecord("Internal error"))
    /\ thrPc' = [thrPc EXCEPT ![t] = "finally"]
    /\ UNCHANGED << reqVars, temp_file_path, text, summary, prompt_text, exc,
                    files, portVars >>

\* lines 111-115: except Exception as e
RunExcept(t) ==
    /\ thrPc[t] = "except"
    /\ response' = {}
    /\ tasks_storage' = Put(tasks_storage, job_id[t], ErrorRecord(exc[t]))
    /\ thrPc' = [thrPc EXCEPT ![t] = "finally"]
    /\ UNCHANGED << reqVars, temp_file_path, text, summary, prompt_text, exc,
                    files, portVars >>

\* d without key k
Drop(d, k) == [x \in (DOMAIN d) \ {k} |-> d[x]]

\* lines 116-122: the file is unlinked only when temp_file_path is set and
\* names an existing file (unlinking the runner's own file is taken to
\* succeed); the thread then ends and its locals are gone
RunFinally(t) ==
    /\ thrPc[t] = "finally"
    /\ response' = {}
    /\ files' = IF t \in DOMAIN temp_file_path /\ temp_file_path[t] \in files
                THEN files \ {temp_file_path[t]}
                ELSE files
    /\ thrPc' = [thrPc EXCEPT ![t] = "done"]
    /\ temp_file_path' = Drop(temp_file_path, t)
    /\ text' = [text EXCEPT ![t] = NoneText]
    /\ summary' = [summary EXCEPT ![t] = NoneSummary]
    /\ prompt_text' = Drop(prompt_text, t)
    /\ exc' = Drop(exc, t)
    /\ port_exc' = Drop(port_exc, t)
    /\ UNCHANGED << tasks_storage, reqVars, port_calls >>

process_pdf_thread(t) ==
    \/ RunStoreInput(t)
    \/ RunSetExtracting(t)
    \/ RunExtract(t)
    \/ RunSetTextLength(t)
    \/ RunSummarize(t)
    \/ RunExcept(t)
    \/ RunFinally(t)

(***************************************************************************)
(* Specifications.                                                         *)
(***************************************************************************)
Next ==
    \/ \E r \in Reqs : summarize_pdf(r)
    \/ \E t \in Reqs : process_pdf_thread(t)
    \/ \E id \in JobIds : get_summary_status(id)

Spec == Init /\ [][Next]_vars

\* a started thread keeps being scheduled, every port call returns, and the
\* event loop finishes the handler it is running
Fairness ==
    /\ \A t \in Reqs : WF_vars(process_pdf_thread(t))
    /\ \A r \in Reqs : WF_vars(SubmitStartThread(r))

FairSpec == Spec /\ Fairness

(***************************************************************************)
(* Properties.                                                             *)
(***************************************************************************)
Terminal == { "completed", "error" }

\* position of a status in the pipeline order
Rank(st) ==
    CASE st = "processing"  -> 0
      [] st = "extracting"  -> 1
      [] st = "summarizing" -> 2
      [] OTHER              -> 3

\* the job ids that summarize_pdf has returned to a client
ReturnedIds == { job_id[r] : r \in { q \in Reqs : reqPc[q] = "returned" } }

\* C1: every job whose record summarize_pdf created eventually has status
\* completed or error, when the runner threads keep being scheduled and
\* the port calls return
C1_JobReachesTerminal ==
    \A r \in Reqs :
        (r \in DOMAIN job_id)
            ~> (r \in DOMAIN job_id /\ tasks_storage[job_id[r]].status \in Terminal)

\* a runner has ended and its job is terminal
C1_Witness ==
    \E t \in Reqs :
        /\ thrPc[t] = "done"
        /\ tasks_storage[job_id[t]].status \in Terminal

\* C2: no step moves the status of a job to an earlier stage of
\* processing < extracting < summarizing < terminal
C2_StatusNeverRegresses ==
    [][ \A id \in DOMAIN tasks_storage :
            /\ id \in DOMAIN tasks_storage'
            /\ Rank(tasks_storage'[id].status) >= Rank(tasks_storage[id].status)
      ]_vars

\* one job went through every stage while another is still being extracted
C2_Witness ==
    \E a, b \in DOMAIN tasks_storage :
        /\ tasks_storage[a].status = "completed"
        /\ tasks_storage[b].status = "extracting"

\* C3: a record has the key error exactly when its status is error, and the
\* key summary exactly when its status is completed
C3_ErrorAndSummaryMatchStatus ==
    \A id \in DOMAIN tasks_storage :
        LET rec == tasks_storage[id]
        IN  /\ ("error" \in DOMAIN rec) <=> (rec.status = "error")
            /\ ("summary" \in DOMAIN rec) <=> (rec.status = "completed")

\* the store holds a completed job and a failed job
C3_Witness ==
    \E a, b \in DOMAIN tasks_storage :
        /\ tasks_storage[a].status = "completed"
        /\ "summary" \in DOMAIN tasks_storage[a]
        /\ tasks_storage[b].status = "error"
        /\ "error" \in DOMAIN tasks_storage[b]

\* C4: no step changes the record of a job whose status is completed or
\* error, and a status call on such a job answers with that very record
C4_TerminalRecordFrozen ==
    [][ \A id \in DOMAIN tasks_storage :
            tasks_storage[id].status \in Terminal =>
                /\ id \in DOMAIN tasks_storage'
                /\ tasks_storage'[id] = tasks_storage[id]
                /\ \A s \in response' :
                       (s.endpoint = "status" /\ s.call = id) =>
                           (s.status_code = 200 /\ s.content = tasks_storage[id])
      ]_vars

\* a status call has just answered for a terminal job whose runner has ended
C4_Witness ==
    \E s \in response, t \in Reqs :
        /\ s.endpoint = "status"
        /\ s.status_code = 200
        /\ s.content.status \in Terminal
        /\ thrPc[t] = "done"
        /\ t \in DOMAIN job_id
        /\ job_id[t] = s.call

\* runner t has just been let down by the Summarization Port after a
\* successful extraction
SummarizationFailedAfterExtraction(t) ==
    /\ thrPc[t] = "finally"
    /\ t \in DOMAIN prompt_text
    /\ ~NotText(text[t])
    /\ NotSummary(summary[t])

\* C5 as stated: after a successful extraction and a failed summarization
\* the record is an error record with the backend-unavailable message that
\* still holds text_length
C5_TextLengthKept ==
    \A t \in Reqs :
        SummarizationFailedAfterExtraction(t) =>
            LET rec == tasks_storage[job_id[t]]
            IN  /\ rec.status = "error"
                /\ rec.error = OllamaMessage
                /\ "text_length" \in DOMAIN rec

\* C5 amended: after a successful extraction and a failed summarization the
\* record is an error record with the backend-unavailable message, and it
\* holds status and error only: text_length is no longer in it
C5_ErrorRecordOnly ==
    \A t \in Reqs :
        SummarizationFailedAfterExtraction(t) =>
            LET rec == tasks_storage[job_id[t]]
            IN  /\ rec.status = "error"
                /\ rec.error = OllamaMessage
                /\ DOMAIN rec = { "status", "error" }

\* the chat backend raised after the extraction of a non-empty text
C5_Witness ==
    \E t \in Reqs :
        /\ SummarizationFailedAfterExtraction(t)
        /\ summary[t].none
        /\ text[t].len > 0

\* the filenames of Filenames whose extension is .pdf in some letter case
PdfNamed == { <<"a", ".", "p", "d", "f">>, <<"b", ".", "P", "D", "F">> }

\* C6: the step that decides on an upload rejects it with a 400 response,
\* leaving the store, the job ids and the threads as they were, when its
\* name is not a .pdf name or its content is longer than MAX_FILE_SIZE, and
\* creates its job otherwise; a rejected upload has no job id and no runner
C6_RejectedIffInvalid ==
    [][ \A r \in Reqs :
            /\ (reqPc[r] \in {"new", "reading"} /\ reqPc'[r] \notin {"new", "reading"}) =>
                   IF filename'[r] \notin PdfNamed \/ content'[r] > MAX_FILE_SIZE
                   THEN /\ reqPc'[r] = "rejected"
                        /\ tasks_storage' = tasks_storage
                        /\ job_id' = job_id
                        /\ thrPc' = thrPc
                        /\ \E s \in response' :
                               /\ s.endpoint = "summarize"
                               /\ s.call = r
                               /\ s.status_code = 400
                   ELSE /\ reqPc'[r] = "created"
                        /\ r \in DOMAIN job_id'
            /\ reqPc'[r] = "reading" => filename'[r] \in PdfNamed
            /\ reqPc'[r] = "rejected" => (r \notin DOMAIN job_id' /\ thrPc'[r] = "idle")
      ]_vars

\* one upload was rejected for its name, another for its size, and the
\* store is empty
C6_Witness ==
    \E a, b \in Reqs :
        /\ reqPc[a] = "rejected"
        /\ filename[a] \notin PdfNamed
        /\ reqPc[b] = "rejected"
        /\ filename[b] = <<"b", ".", "P", "D", "F">>
        /\ content[b] > MAX_FILE_SIZE
        /\ DOMAIN tasks_storage = {}

\* C7: an accepted upload gets the record {status: processing, filename},
\* exactly one runner thread is started for its job, and once the thread is
\* started the handler can return whatever the runner is doing
C7_SubmitDoesNotWait ==
    /\ [][ \A r \in Reqs :
               (reqPc[r] = "reading" /\ reqPc'[r] = "created") =>
                   tasks_storage'[job_id'[r]] =
                       [status |-> "processing", filename |-> filename[r]]
         ]_vars
    /\ [](\A r \in Reqs :
              /\ reqPc[r] = "started" => ENABLED SubmitReturn(r)
              /\ reqPc[r] \in {"started", "returned"} =>
                     Cardinality({ t \in DOMAIN job_id :
                                     thrPc[t] # "idle" /\ job_id[t] = job_id[r] }) = 1)

\* the handler has returned the job id while the runner has not taken a step
C7_Witness ==
    \E s \in response :
        /\ s.endpoint = "summarize"
        /\ s.status_code = 200
        /\ thrPc[s.call] = "start"
        /\ tasks_storage[s.content.job_id].status = "processing"

\* C8: the record of a returned job id is in the store with one of the five
\* statuses, and a status call for a returned job id answers 200 with a
\* record that has one of the five statuses
C8_ReturnedJobHasStatus ==
    /\ \A id \in ReturnedIds :
           /\ id \in DOMAIN tasks_storage
           /\ "status" \in DOMAIN tasks_storage[id]
           /\ tasks_storage[id].status \in Statuses
    /\ \A s \in response :
           (s.endpoint = "status" /\ s.call \in ReturnedIds) =>
               /\ s.status_code = 200
               /\ "status" \in DOMAIN s.content
               /\ s.content.status \in Statuses

\* a status call has just answered for a returned job that failed on a fault
C8_Witness ==
    \E s \in response :
        /\ s.endpoint = "status"
        /\ s.call \in ReturnedIds
        /\ s.status_code = 200
        /\ s.content.status = "error"
        /\ s.content.error \in FaultMessages

\* C9 as stated: a runner that has ended holds no temporary file
C9_TempFileReleased ==
    \A t \in Reqs : thrPc[t] = "done" => t \notin files

\* C10 as stated: a status response whose status is summarizing contains
\* text_length
C10_SummarizingHasTextLength ==
    \A s \in response :
        (s.endpoint = "status" /\ s.status_code = 200
            /\ s.content.status = "summarizing") =>
                "text_length" \in DOMAIN s.content

\* C11: no two calls of summarize_pdf have the same job id, the job id of a
\* call never changes, and the record of a new job is stored under a key
\* that was not in the store
C11_JobIdsUnique ==
    /\ [](\A a, b \in DOMAIN job_id : a # b => job_id[a] # job_id[b])
    /\ [][ \A r \in Reqs :
               /\ (r \notin DOMAIN job_id /\ r \in DOMAIN job_id') =>
                      /\ job_id'[r] \notin DOMAIN tasks_storage
                      /\ job_id'[r] \in DOMAIN tasks_storage'
               /\ r \in DOMAIN job_id =>
                      (r \in DOMAIN job_id' /\ job_id'[r] = job_id[r])
         ]_vars

\* two uploads were accepted while the job of the first was already terminal
C11_Witness ==
    \E a, b \in DOMAIN job_id :
        /\ a # b
        /\ reqPc[b] = "created"
        /\ tasks_storage[job_id[a]].status \in Terminal
        /\ tasks_storage[job_id[b]].status = "processing"

\* C12: a status call for an id that summarize_pdf has not returned answers
\* 404, and no status call changes the store
C12_UnknownIdNotFound ==
    /\ [](\A s \in response :
              (s.endpoint = "status" /\ s.call \notin ReturnedIds) =>
                  (s.status_code = 404 /\ s.call \notin DOMAIN tasks_storage))
    /\ [][ (\E s \in response' : s.endpoint = "status") =>
               tasks_storage' = tasks_storage
         ]_vars

\* a status call has just answered 404 while the store holds a job
C12_Witness ==
    \E s \in response :
        /\ s.endpoint = "status"
        /\ s.status_code = 404
        /\ s.call \notin ReturnedIds
        /\ DOMAIN tasks_storage # {}

\* the record of the job of call r holds the filename of the upload
HasFilename(r) ==
    LET rec == tasks_storage[job_id[r]]
    IN  "filename" \in DOMAIN rec /\ rec.filename = filename[r]

\* C13 as stated: the record of every job holds the filename given at
\* submission, in the error and completed states too
C13_FilenameKept ==
    \A r \in DOMAIN job_id : HasFilename(r)

\* C13 amended: the record of every job whose status is not error holds the
\* filename given at submission; an error record holds no filename
C13_FilenameKeptUnlessError ==
    \A r \in DOMAIN job_id :
        IF tasks_storage[job_id[r]].status = "error"
        THEN "filename" \notin DOMAIN tasks_storage[job_id[r]]
        ELSE HasFilename(r)

\* two completed jobs hold the two different names they were uploaded with
C13_Witness ==
    \E a, b \in DOMAIN job_id :
        /\ filename[a] # filename[b]
        /\ tasks_storage[job_id[a]].status = "completed"
        /\ tasks_storage[job_id[b]].status = "completed"
        /\ HasFilename(a)
        /\ HasFilename(b)

\* the status changes of the pipeline
StatusChanges ==
    { <<"processing", "extracting">>, <<"extracting", "summarizing">>,
      <<"summarizing", "completed">>, <<"processing", "error">>,
      <<"extracting", "error">>, <<"summarizing", "error">> }

\* C14: every change of the status of a job is processing to extracting,
\* extracting to summarizing, summarizing to completed, or a non-terminal
\* status to error
C14_OnlyPipelineSteps ==
    [][ \A id \in DOMAIN tasks_storage :
            /\ id \in DOMAIN tasks_storage'
            /\ tasks_storage'[id].status # tasks_storage[id].status =>
                   << tasks_storage[id].status, tasks_storage'[id].status >>
                       \in StatusChanges
      ]_vars

\* a runner has just completed its job after one call to each port
C14_Witness ==
    \E t \in Reqs :
        /\ thrPc[t] = "finally"
        /\ tasks_storage[job_id[t]].status = "completed"
        /\ port_calls[t] = [extract |-> 1, summarize |-> 1]

\* C15: a runner calls each port at most once; it calls the Summarization
\* Port only after its one extraction returned a non-empty text; a port
\* that fails or returns an empty result makes the runner write status
\* error and leave, after which it calls no port
C15_PortsCalledOnce ==
    [][ \A t \in Reqs :
            /\ port_calls'[t].extract <= 1
            /\ port_calls'[t].summarize <= 1
            /\ port_calls'[t].summarize > port_calls[t].summarize =>
                   (port_calls[t].extract = 1 /\ ~NotText(text[t]))
            /\ (port_calls'[t].extract > port_calls[t].extract /\ NotText(text'[t])) =>
                   (tasks_storage'[job_id[t]].status = "error" /\ thrPc'[t] = "finally")
            /\ (port_calls'[t].summarize > port_calls[t].summarize
                    /\ NotSummary(summary'[t])) =>
                   (tasks_storage'[job_id[t]].status = "error" /\ thrPc'[t] = "finally")
            /\ thrPc[t] \in {"finally", "done"} => port_calls'[t] = port_calls[t]
      ]_vars

\* one runner ended after a failed extraction without calling the
\* Summarization Port, another after a failed summarization
C15_Witness ==
    \E a, b \in Reqs :
        /\ thrPc[a] = "done"
        /\ port_calls[a] = [extract |-> 1, summarize |-> 0]
        /\ thrPc[b] = "done"
        /\ port_calls[b] = [extract |-> 1, summarize |-> 1]
        /\ tasks_storage[job_id[b]].status = "error"

\* runner t is leaving after a fault was raised at some stage
FaultRaised(t) ==
    thrPc[t] = "finally" /\ (t \in DOMAIN exc \/ t \in DOMAIN port_exc)

\* the message of that fault
FaultMessage(t) == IF t \in DOMAIN exc THEN exc[t] ELSE port_exc[t]

\* C16 as stated: a fault raised at any stage of a runner is recorded in
\* the record of its job as status error with the message of the fault
C16_FaultMessageRecorded ==
    \A t \in Reqs :
        FaultRaised(t) =>
            LET rec == tasks_storage[job_id[t]]
            IN  rec.status = "error" /\ rec.error = FaultMessage(t)

\* C16 amended: a fault raised while the input is stored is recorded as
\* status error with the message of the fault; a fault raised inside a port
\* is recorded as status error with the fixed message of that port; the
\* step that records a fault changes nothing but the record of its own job
C16_FaultRecorded ==
    /\ [](\A t \in Reqs :
              FaultRaised(t) =>
                  tasks_storage[job_id[t]] =
                      [status |-> "error",
                       error |-> IF t \in DOMAIN exc THEN exc[t]
                                 ELSE IF port_calls[t].summarize = 0
                                      THEN NoTextMessage ELSE OllamaMessage])
    /\ [][ \A t \in Reqs :
               (thrPc[t] = "except" /\ thrPc'[t] # "except") =>
                   /\ thrPc'[t] = "finally"
                   /\ \A u \in Reqs \ {t} : thrPc'[u] = thrPc[u]
                   /\ \A id \in DOMAIN tasks_storage \ {job_id[t]} :
                          tasks_storage'[id] = tasks_storage[id]
                   /\ DOMAIN tasks_storage' = DOMAIN tasks_storage
                   /\ reqPc' = reqPc /\ job_id' = job_id
         ]_vars

\* one runner recorded a fault of the temporary file, another a fault the
\* Extraction Port caught
C16_Witness ==
    \E a, b \in Reqs :
        /\ FaultRaised(a)
        /\ a \in DOMAIN exc
        /\ exc[a] = "No space left on device"
        /\ FaultRaised(b)
        /\ b \in DOMAIN port_exc
        /\ port_calls[b].summarize = 0

\* C17: a step that changes the record of a job is a step of the one runner
\* started for that job, and it changes the record of no other job
C17_SingleWriter ==
    [][ \A id \in DOMAIN tasks_storage :
            (id \in DOMAIN tasks_storage' /\ tasks_storage'[id] # tasks_storage[id]) =>
                /\ Cardinality({ t \in DOMAIN job_id : job_id[t] = id }) = 1
                /\ \E t \in DOMAIN job_id :
                       /\ job_id[t] = id
                       /\ thrPc[t] \notin {"idle", "done"}
                       /\ thrPc'[t] # thrPc[t]
                       /\ \A u \in Reqs \ {t} : thrPc'[u] = thrPc[u]
                /\ \A other \in DOMAIN tasks_storage \ {id} :
                       tasks_storage'[other] = tasks_storage[other]
      ]_vars

\* two runners have each written the record of their own job
C17_Witness ==
    \E a, b \in DOMAIN job_id :
        /\ tasks_storage[job_id[a]].status = "extracting"
        /\ thrPc[a] = "extract"
        /\ tasks_storage[job_id[b]].status = "summarizing"
        /\ thrPc[b] = "summarize"

\* C18: the text given to the chat backend has the length of the extracted
\* text when that is at most 4000 and the length 4000 otherwise, while the
\* text_length of the record is the length of the whole extracted text
C18_PromptTruncatedLengthFull ==
    \A t \in Reqs :
        /\ t \in DOMAIN prompt_text =>
               /\ text[t].len <= 4000 => prompt_text[t] = text[t].len
               /\ text[t].len > 4000 => prompt_text[t] = 4000
        /\ thrPc[t] = "summarize" =>
               tasks_storage[job_id[t]].text_length = text[t].len
        /\ (thrPc[t] = "finally" /\ tasks_storage[job_id[t]].status = "completed") =>
               tasks_storage[job_id[t]].text_length = text[t].len

\* a job completed on a text longer than the budget: the prompt got 4000
\* characters and the record holds the full length
C18_Witness ==
    \E t \in Reqs :
        /\ thrPc[t] = "finally"
        /\ text[t].len = 4001
        /\ prompt_text[t] = 4000
        /\ tasks_storage[job_id[t]].status = "completed"
        /\ tasks_storage[job_id[t]].text_length = 4001

\* C19: a completed record has text_length > 0 and a non-empty summary, and
\* a runner whose extraction or summarization failed or came back empty
\* does not leave its job completed
C19_CompletedHasTextAndSummary ==
    /\ \A id \in DOMAIN tasks_storage :
           tasks_storage[id].status = "completed" =>
               /\ tasks_storage[id].text_length > 0
               /\ tasks_storage[id].summary # ""
    /\ \A t \in Reqs :
           (thrPc[t] = "finally"
               /\ (text[t].none \/ text[t].len = 0
                      \/ summary[t].none \/ summary[t].val = "")) =>
                   tasks_storage[job_id[t]].status = "error"

\* one job completed with text and summary, another failed on an empty text
C19_Witness ==
    \E a, b \in DOMAIN tasks_storage :
        /\ tasks_storage[a].status = "completed"
        /\ tasks_storage[a].text_length = 1
        /\ tasks_storage[a].summary = "Ringkasan"
        /\ tasks_storage[b].status = "error"
        /\ tasks_storage[b].error = NoTextMessage

=============================================================================
